---- MODULE Spec2Model ----
(***************************************************************************)
(* Model of the geometry export subsystem of OpenSCAD (src/export.cc):     *)
(* the dispatcher exportFile, the file front end exportFileByName, the    *)
(* vertex index PolySet_to_ASCII_Faces / find_index, the boundary         *)
(* extractor NefPoly_to_ASCII_Triangles and the STL / OFF / AMF / OBJ /   *)
(* DXF / SVG writers, together with the process-wide numeric locale the   *)
(* writers switch with setlocale.                                          *)
(*                                                                         *)
(* Numbers.  A double is an integer count of 10^-Precision units.  Text   *)
(* is a TLA+ string, a line of output is a sequence of strings (the       *)
(* fields the writer streams into it) and a file is a sequence of lines.  *)
(* One stream write that can fail is one line.                            *)
(***************************************************************************)
EXTENDS Integers, Sequences, FiniteSets, TLC

VARIABLES locale, envLocale, geom, last, ref

vars == <<locale, envLocale, geom, last, ref>>

-----------------------------------------------------------------------------
(* Bounds of the explored inputs.                                          *)

MaxFaces == 2

MaxDetFaces == 1

MaxOutlines == 2

MaxGoodWrites == 2

-----------------------------------------------------------------------------
(* Sequence helpers.                                                       *)

Range(s) == {s[i] : i \in 1..Len(s)}

RECURSIVE Flatten(_)
Flatten(ss) == IF ss = <<>> THEN <<>> ELSE Head(ss) \o Flatten(Tail(ss))

(* The sequences of at most n elements of S, no element listed twice.     *)
RECURSIVE SeqsUpTo(_, _)
SeqsUpTo(S, n) ==
    IF n = 0 THEN {<<>>}
    ELSE LET shorter == SeqsUpTo(S, n - 1)
         IN  shorter \cup UNION {{Append(s, x) : x \in S \ Range(s)} :
                                   s \in {t \in shorter : Len(t) = n - 1}}

(* F applied to the value of x, which is computed once.                    *)
With(x, F(_)) == CHOOSE y \in {F(v) : v \in {x}} : TRUE

Prefix(s, n) == IF n >= Len(s) THEN s ELSE SubSeq(s, 1, n)

-----------------------------------------------------------------------------
(* The numeric locale and operator<<(double).                              *)

Locales == {"C", "de_DE"}

Radix(loc) == IF loc = "C" THEN "." ELSE ","

Precision == 6

RECURSIVE Pow10(_)
Pow10(n) == IF n = 0 THEN 1 ELSE 10 * Pow10(n - 1)

Unit == Pow10(Precision)

RECURSIVE NumDigits(_)
NumDigits(n) == IF n < 10 THEN 1 ELSE 1 + NumDigits(n \div 10)

Abs(v) == IF v < 0 THEN 0 - v ELSE v

(* Rounds a non-negative value to Precision significant digits.            *)
RoundSig(a) ==
    IF NumDigits(a) <= Precision THEN a
    ELSE LET p == Pow10(NumDigits(a) - Precision)
         IN  ((a + p \div 2) \div p) * p

RECURSIVE ZeroPad(_, _)
ZeroPad(f, w) == IF w = 0 THEN "" ELSE ZeroPad(f \div 10, w - 1) \o ToString(f % 10)

(* The w fractional digits f # 0, without trailing zeros.                  *)
RECURSIVE FracText(_, _)
FracText(f, w) == IF f % 10 = 0 THEN FracText(f \div 10, w - 1) ELSE ZeroPad(f, w)

(* operator<<(std::ostream&, double) at the default precision, under the   *)
(* numeric locale loc: %g style, no trailing zeros, the radix character of *)
(* the locale.                                                             *)
Fmt(v, loc) ==
    LET r == RoundSig(Abs(v))
    IN  (IF v < 0 /\ r # 0 THEN "-" ELSE "") \o ToString(r \div Unit)
        \o (IF r % Unit = 0 THEN "" ELSE Radix(loc) \o FracText(r % Unit, Precision))

-----------------------------------------------------------------------------
(* Geometry handed in by the evaluation layer.  A point is a tuple of      *)
(* doubles, a face (PolySet::Polygon) a sequence of points, a mesh         *)
(* (PolySet) a sequence of faces.  All points lie in the plane z = 0.      *)

Half == Unit \div 2

PA == <<0, 0, 0>>

PB == <<Unit, 0, 0>>

PC == <<0, Half, 0>>

(* Differs from PB below the printed precision: same text, other point.    *)
PD == <<Unit + 1, 0, 0>>

PE == <<Unit, Half, 0>>

FacePool ==
    { <<PA, PB, PC>>,           \* a proper triangle
      <<PA, PA, PB>>,           \* two coincident corners
      <<PA, PB, PD>>,           \* two corners with the same text
      <<PA, PB, PE, PC>>,       \* a quadrilateral
      <<PA, PA, PB, PC>> }      \* a quadrilateral with coincident corners

Meshes == SeqsUpTo(FacePool, MaxFaces)

(* A Solid (CGAL_Nef_polyhedron): what is_simple() reports, whether the    *)
(* kernel's convert_to_Polyhedron raises an assertion failure, whether     *)
(* createPolySetFromNefPolyhedron3 reports an error, and the boundary      *)
(* facets either conversion yields.                                        *)
SolidBoundaries == { <<>>, <<<<PA, PB, PC>>>>, <<<<PA, PB, PE, PC>>, <<PA, PB, PD>>>> }

Solids ==
    [kind : {"Solid"}, simple : BOOLEAN, convertThrows : BOOLEAN, polysetErr : BOOLEAN,
     facets : SolidBoundaries, polygons : {<<>>}, outlines : {<<>>}]

(* An Outline set (Polygon2d): a sequence of outlines, each a sequence of  *)
(* 2D points; an outline may have a single vertex or none.                 *)
OutlinePool ==
    { <<<<0, 0>>, <<Unit, 0>>, <<Half, 0 - Half>>>>,
      <<<<0 - Half, Half>>, <<Unit + Half, Unit>>>>,
      <<<<Half, Half>>>>,
      <<>> }

(* The outline sets with at least one vertex: the bounding box of a set    *)
(* without vertices is not defined here.                                   *)
OutlineSets ==
    {poly \in SeqsUpTo(OutlinePool, MaxOutlines) : \E k \in 1..Len(poly) : poly[k] # <<>>}

-----------------------------------------------------------------------------
(* The vertex index.                                                       *)

(* An ascii_vert: the three coordinates of a point as text.  The fields    *)
(* are kept apart, as the writers read them back with stream >> x >> y >> z.*)
Key(v, loc) == <<Fmt(v[1], loc), Fmt(v[2], loc), Fmt(v[3], loc)>>

EmptyIndex == [vertices |-> <<>>, vertmap |-> <<>>]

RegisterAlways(tab, coord3d) ==
    [vertices |-> Append(tab.vertices, coord3d),
     vertmap  |-> (coord3d :> Len(tab.vertices)) @@ tab.vertmap]

RegisterOneBased(tab, coord3d) ==
    IF coord3d \in DOMAIN tab.vertmap THEN tab
    ELSE [vertices |-> Append(tab.vertices, coord3d),
          vertmap  |-> (coord3d :> Len(tab.vertices) + 1) @@ tab.vertmap]

(* if (vertmap.count(coord3d)==0) { vertmap[coord3d] = vertices.size();    *)
(*                                  vertices.push_back( coord3d ); }       *)
RegisterVertex(tab, coord3d) ==
    IF coord3d \in DOMAIN tab.vertmap THEN tab
    ELSE [vertices |-> Append(tab.vertices, coord3d),
          vertmap  |-> (coord3d :> Len(tab.vertices)) @@ tab.vertmap]

RECURSIVE RegisterAll(_, _)
RegisterAll(tab, keys) ==
    IF keys = <<>> THEN tab
    ELSE RegisterAll(RegisterVertex(tab, Head(keys)), Tail(keys))

FaceKeys(poly, loc) == [j \in 1..Len(poly) |-> Key(poly[j], loc)]

KeepAllFaces(face) == TRUE

(* dup_detect.size() == poly->size()                                       *)
NoDuplicateKeys(face) == Cardinality(Range(face)) = Len(face)

PolySet_to_ASCII_Faces(ps, loc) ==
    LET keyed == [i \in 1..Len(ps) |-> FaceKeys(ps[i], loc)]
        tab   == RegisterAll(EmptyIndex, Flatten(keyed))
    IN  [vertices |-> tab.vertices,
         vertmap  |-> tab.vertmap,
         faces    |-> SelectSeq(keyed, NoDuplicateKeys)]

(* std::distance(begin, std::find(begin, end, tofind)): the 0-based        *)
(* position of the first equal entry, vertices.size() when there is none.  *)
find_index(vertices, tofind) ==
    IF \E i \in 1..Len(vertices) : vertices[i] = tofind
    THEN (CHOOSE i \in 1..Len(vertices) :
            /\ vertices[i] = tofind
            /\ \A j \in 1..(i - 1) : vertices[j] # tofind) - 1
    ELSE Len(vertices)

(* The triangles the facet walk of a polygon with corners f yields: the    *)
(* first corner with every following pair.                                 *)
FanTriangles(f) == [i \in 1..(Len(f) - 2) |-> <<f[1], f[i + 1], f[i + 2]>>]

(* PolysetUtils::tessellate_faces: every face replaced by 3-point faces    *)
(* covering it, winding preserved.                                         *)
tessellate_faces(ps) ==
    Flatten([i \in 1..Len(ps) |-> IF Len(ps[i]) = 3 THEN <<ps[i]>> ELSE FanTriangles(ps[i])])

PairwiseDistinct(tri) == tri[1] # tri[2] /\ tri[1] # tri[3] /\ tri[2] # tri[3]

PushIfPresent(vertices, vs) ==
    IF \E i \in 1..Len(vertices) : vertices[i] = vs THEN Append(vertices, vs) ELSE vertices

(* if (std::find(vertices.begin(), vertices.end(), vs) == vertices.end())  *)
(*     vertices.push_back(vs);                                             *)
PushIfAbsent(vertices, vs) ==
    IF \E i \in 1..Len(vertices) : vertices[i] = vs THEN vertices ELSE Append(vertices, vs)

RECURSIVE TrianglesToAscii(_, _, _)
TrianglesToAscii(tris, acc, loc) ==
    IF tris = <<>> THEN acc
    ELSE LET t  == FaceKeys(Head(tris), loc)
             vs == PushIfAbsent(PushIfAbsent(PushIfAbsent(acc.vertices, t[1]), t[2]), t[3])
         IN  TrianglesToAscii(Tail(tris),
                 [vertices |-> vs,
                  faces    |-> IF PairwiseDistinct(t) THEN Append(acc.faces, t) ELSE acc.faces],
                 loc)

CGALPolyhedron_to_ASCII_Triangles(P, loc) ==
    TrianglesToAscii(Flatten([i \in 1..Len(P) |-> FanTriangles(P[i])]),
                     [vertices |-> <<>>, faces |-> <<>>], loc)

-----------------------------------------------------------------------------
(* Streams, diagnostics and the locale switch.                             *)

(* A piece of output: the text fields of one write, tagged with what the   *)
(* write is.                                                               *)
Line(kind, text) == [kind |-> kind, text |-> text]

NeverFails == 0 - 1

(* The stream after the writes of lines, when only the first cap writes    *)
(* succeed (cap = NeverFails: all do).  With exceptions(badbit|failbit)    *)
(* the first failing write raises std::ios::failure and ends the writer.   *)
Stream(lines, cap) ==
    [output |-> IF cap = NeverFails THEN lines ELSE Prefix(lines, cap),
     thrown |-> cap # NeverFails /\ Len(lines) > cap]

(* setlocale(LC_NUMERIC, name): "" selects the locale of the environment.  *)
setlocale(name, env) == IF name = "" THEN env ELSE name

NotManifold == <<"Object isn't a valid 2-manifold! Modify your design.">>

MayNotBeManifold ==
    <<"Warning: Exported object may not be a valid 2-manifold and may need repair">>

KernelError == <<"CGAL error in CGAL_Nef_polyhedron3::convert_to_Polyhedron(): %s">>

PolySetFailed == <<"ERROR: Nef->PolySet failed">>

(* What one writer call leaves behind: the stream, the locale in force     *)
(* when it ends, the locales under which it turned a coordinate to text,   *)
(* its diagnostics, whether it ran a solid conversion, and its vertex and  *)
(* face tables (index-based writers).                                      *)
Done(s, loc, convLocs, diags, extracted, t) ==
    s @@ [locale |-> loc, convLocs |-> convLocs, diags |-> diags, extracted |-> extracted,
          vertices |-> t.vertices, vertmap |-> t.vertmap, faces |-> t.faces]

NoTables == [vertices |-> <<>>, vertmap |-> <<>>, faces |-> <<>>]

(* The locale in force when a writer that switched to l1 ends: the final   *)
(* setlocale(LC_NUMERIC, "") is not reached when a write raised a failure. *)
LocaleAtExit(s, l1, env) == IF s.thrown THEN l1 ELSE setlocale("", env)

-----------------------------------------------------------------------------
(* STL.                                                                    *)

is_simple_always(N) == TRUE

(* root_N->p3->is_simple()                                                 *)
is_simple(N) == N.simple

Sgn(n) == IF n > 0 THEN 1 ELSE IF n < 0 THEN 0 - 1 ELSE 0

(* The product a * b in two halves, hi * Unit + lo with 0 <= lo < Unit.    *)
WideProduct(a, b) ==
    LET k   == Pow10(Precision \div 2)
        mid == (a \div k) * (b % k) + (a % k) * (b \div k)
        low == (mid % k) * k + (a % k) * (b % k)
    IN  [hi |-> (a \div k) * (b \div k) + mid \div k + low \div Unit, lo |-> low % Unit]

(* The sign of a * b - c * d.                                              *)
CrossSign(a, b, c, d) ==
    LET p == WideProduct(a, b)
        q == WideProduct(c, d)
    IN  IF p.hi # q.hi THEN Sgn(p.hi - q.hi) ELSE Sgn(p.lo - q.lo)

(* (p[1] - p[0]).cross(p[2] - p[0]), normalized, as text.  For corners in  *)
(* the plane z = 0 the cross product is (0, 0, c) and its unit vector      *)
(* (0, 0, sign c); a zero cross product normalizes to not-a-number.        *)
NormalText(p, loc) ==
    LET c == CrossSign(p[2][1] - p[1][1], p[3][2] - p[1][2],
                       p[2][2] - p[1][2], p[3][1] - p[1][1])
    IN  IF c = 0 THEN <<"nan", "nan", "nan">>
        ELSE <<Fmt(0, loc), Fmt(0, loc), Fmt(Unit * c, loc)>>

StlFacet(p, loc) ==
    <<Line("facet", <<"  facet normal">> \o NormalText(p, loc)),
      Line("loop", <<"    outer loop">>),
      Line("vertex", <<"      vertex">> \o Key(p[1], loc)),
      Line("vertex", <<"      vertex">> \o Key(p[2], loc)),
      Line("vertex", <<"      vertex">> \o Key(p[3], loc)),
      Line("loop", <<"    endloop">>),
      Line("facet", <<"  endfacet">>)>>

(* if (vs1 != vs2 && vs1 != vs3 && vs2 != vs3) { ... }                     *)
StlFacetIfDistinct(p, loc) ==
    IF PairwiseDistinct(FaceKeys(p, loc)) THEN StlFacet(p, loc) ELSE <<>>

StlLines(triangulated, loc) ==
    <<Line("header", <<"solid OpenSCAD_Model">>)>>
    \o Flatten([i \in 1..Len(triangulated) |-> StlFacetIfDistinct(triangulated[i], loc)])
    \o <<Line("trailer", <<"endsolid OpenSCAD_Model">>)>>

export_stl_PolySet(ps, loc0, env, cap) ==
    LET l1 == setlocale("C", env)
    IN  With(tessellate_faces(ps), LAMBDA triangulated :
        With(Stream(StlLines(triangulated, l1), cap), LAMBDA s :
          Done(s, LocaleAtExit(s, l1, env),
               IF triangulated # <<>> /\ cap # 0 THEN {l1} ELSE {},
               <<>>, FALSE, NoTables)))

export_stl_Nef(N, loc0, env, cap) ==
    LET warn == IF is_simple(N) THEN <<>> ELSE <<MayNotBeManifold>>
    IN  IF N.polysetErr
        THEN Done(Stream(<<>>, cap), loc0, {}, Append(warn, PolySetFailed), TRUE, NoTables)
        ELSE [diags |-> warn, extracted |-> TRUE]
             @@ export_stl_PolySet(N.facets, loc0, env, cap)

-----------------------------------------------------------------------------
(* The boundary extractor.                                                 *)

NefPoly_to_ASCII_Triangles(N, loc) ==
    IF ~is_simple(N)
    THEN [vertices |-> <<>>, vertmap |-> <<>>, faces |-> <<>>, diags |-> <<NotManifold>>,
          extracted |-> FALSE, convLocs |-> {}]
    ELSE IF N.convertThrows
    THEN [vertices |-> <<>>, vertmap |-> <<>>, faces |-> <<>>, diags |-> <<KernelError>>,
          extracted |-> TRUE, convLocs |-> {}]
    ELSE LET t == CGALPolyhedron_to_ASCII_Triangles(N.facets, loc)
         IN  [vertices |-> t.vertices, vertmap |-> <<>>, faces |-> t.faces, diags |-> <<>>,
              extracted |-> TRUE,
              convLocs |-> IF N.facets # <<>> THEN {loc} ELSE {}]

-----------------------------------------------------------------------------
(* OFF, AMF, OBJ.                                                          *)

(* stream >> x >> y >> z succeeds on an ascii_vert                         *)
Parses(v) == Len(v) = 3 /\ \A i \in 1..3 : v[i] # ""

(* The vertex table is written up to the first entry that does not parse;  *)
(* the writer returns there.                                               *)
ParsedUpTo(vertices) ==
    IF \A i \in 1..Len(vertices) : Parses(vertices[i]) THEN Len(vertices)
    ELSE (CHOOSE i \in 1..Len(vertices) :
            ~Parses(vertices[i]) /\ \A j \in 1..(i - 1) : Parses(vertices[j])) - 1

VertexLines(vertices, lead) ==
    [i \in 1..ParsedUpTo(vertices) |-> Line("vertex", lead \o vertices[i])]

OffFaceLine(vertices, face) ==
    Line("face", <<ToString(Len(face))>>
                 \o [j \in 1..Len(face) |-> ToString(find_index(vertices, face[j]))])

ASCII_Faces_to_off(vertices, faces) ==
    <<Line("header", <<"OFF", ToString(Len(vertices)), ToString(Len(faces)), "0">>)>>
    \o VertexLines(vertices, <<>>)
    \o IF ParsedUpTo(vertices) < Len(vertices) THEN <<>>
       ELSE [i \in 1..Len(faces) |-> OffFaceLine(vertices, faces[i])]

AmfTriangleLine(vertices, t) ==
    Line("face", <<"<triangle>", ToString(find_index(vertices, t[1])),
                   ToString(find_index(vertices, t[2])),
                   ToString(find_index(vertices, t[3]))>>)

ASCII_Triangles_to_amf(vertices, triangles) ==
    <<Line("header", <<"<?xml version=\"1.0\" encoding=\"UTF-8\"?>">>),
      Line("header", <<"<amf unit=\"millimeter\">">>),
      Line("header", <<"<metadata type=\"producer\">", "OpenSCAD", "OPENSCAD_VERSION">>),
      Line("header", <<"<object id=\"0\">">>),
      Line("header", <<"<mesh>">>),
      Line("header", <<"<vertices>">>)>>
    \o VertexLines(vertices, <<"<vertex><coordinates>">>)
    \o IF ParsedUpTo(vertices) < Len(vertices) THEN <<>>
       ELSE <<Line("trailer", <<"</vertices>">>), Line("header", <<"<volume>">>)>>
            \o [i \in 1..Len(triangles) |-> AmfTriangleLine(vertices, triangles[i])]
            \o <<Line("trailer", <<"</volume>">>), Line("trailer", <<"</mesh>">>),
                 Line("trailer", <<"</object>">>), Line("trailer", <<"</amf>">>)>>

ObjFaceLineZeroBased(vertices, face) ==
    Line("face", <<"f">> \o [j \in 1..Len(face) |-> ToString(find_index(vertices, face[j]))])

ObjFaceLine(vertices, face) ==
    Line("face", <<"f">> \o [j \in 1..Len(face) |-> ToString(1 + find_index(vertices, face[j]))])

ASCII_Faces_to_obj(vertices, faces) ==
    <<Line("header", <<"# WaveFront *.obj file (generated by OpenSCAD", "OPENSCAD_VERSION",
                       "g Object">>)>>
    \o VertexLines(vertices, <<"v">>)
    \o IF ParsedUpTo(vertices) < Len(vertices) THEN <<>>
       ELSE <<Line("blank", <<>>)>>
            \o [i \in 1..Len(faces) |-> ObjFaceLine(vertices, faces[i])]
            \o <<Line("trailer", <<"# end WaveFront *.obj file (generated by OpenSCAD",
                                   "OPENSCAD_VERSION">>)>>

MeshConvLocs(ps, loc) == IF ps # <<>> THEN {loc} ELSE {}

export_off_PolySet(ps, loc0, env, cap) ==
    LET l1 == setlocale("C", env)
    IN  With(PolySet_to_ASCII_Faces(ps, l1), LAMBDA t :
        With(Stream(ASCII_Faces_to_off(t.vertices, t.faces), cap), LAMBDA s :
          Done(s, LocaleAtExit(s, l1, env), MeshConvLocs(ps, l1),
               <<>>, FALSE, t)))

export_off_Nef(N, loc0, env, cap) ==
    LET l1 == setlocale("C", env)
    IN  With(NefPoly_to_ASCII_Triangles(N, l1), LAMBDA t :
        With(Stream(ASCII_Faces_to_off(t.vertices, t.faces), cap), LAMBDA s :
          Done(s, LocaleAtExit(s, l1, env), t.convLocs,
               t.diags, t.extracted, t)))

export_amf_PolySet_FilterFirst(ps, loc0, env, cap) ==
    With(tessellate_faces(SelectSeq(ps, LAMBDA f : NoDuplicateKeys(FaceKeys(f, loc0)))),
         LAMBDA triangulated :
    With(PolySet_to_ASCII_Faces(triangulated, loc0), LAMBDA t :
    With(Stream(ASCII_Triangles_to_amf(t.vertices, t.faces), cap), LAMBDA s :
      Done(s, loc0, MeshConvLocs(triangulated, loc0), <<>>, FALSE, t))))

export_amf_PolySet(ps, loc0, env, cap) ==
    With(tessellate_faces(ps), LAMBDA triangulated :
    With(PolySet_to_ASCII_Faces(triangulated, loc0), LAMBDA t :
    With(Stream(ASCII_Triangles_to_amf(t.vertices, t.faces), cap), LAMBDA s :
      Done(s, loc0, MeshConvLocs(triangulated, loc0), <<>>, FALSE, t))))

export_amf_Nef(N, loc0, env, cap) ==
    IF ~is_simple(N)
    THEN Done(Stream(<<>>, cap), loc0, {}, <<NotManifold>>, FALSE, NoTables)
    ELSE LET l1 == setlocale("C", env)
         IN  With(NefPoly_to_ASCII_Triangles(N, l1), LAMBDA t :
             With(Stream(ASCII_Triangles_to_amf(t.vertices, t.faces), cap), LAMBDA s :
               Done(s, LocaleAtExit(s, l1, env), t.convLocs,
                    t.diags, t.extracted, t)))

export_obj_PolySet(ps, loc0, env, cap) ==
    LET l1 == setlocale("C", env)
    IN  With(PolySet_to_ASCII_Faces(ps, l1), LAMBDA t :
        With(Stream(ASCII_Faces_to_obj(t.vertices, t.faces), cap), LAMBDA s :
          Done(s, LocaleAtExit(s, l1, env), MeshConvLocs(ps, l1),
               <<>>, FALSE, t)))

export_obj_Nef(N, loc0, env, cap) ==
    IF ~is_simple(N)
    THEN Done(Stream(<<>>, cap), loc0, {}, <<NotManifold>>, FALSE, NoTables)
    ELSE LET l1 == setlocale("C", env)
         IN  With(NefPoly_to_ASCII_Triangles(N, l1), LAMBDA t :
             With(Stream(ASCII_Faces_to_obj(t.vertices, t.faces), cap), LAMBDA s :
               Done(s, LocaleAtExit(s, l1, env), t.convLocs,
                    t.diags, t.extracted, t)))

-----------------------------------------------------------------------------
(* DXF and SVG.                                                            *)

DxfEntity(p1, p2, loc) ==
    Line("entity", <<"  0", "LINE", "  8", "0",
                     " 10", Fmt(p1[1], loc), " 11", Fmt(p2[1], loc),
                     " 20", Fmt(p1[2], loc), " 21", Fmt(p2[2], loc)>>)

DxfOutlineOpen(o, loc) == [i \in 1..(Len(o) - 1) |-> DxfEntity(o[i], o[i + 1], loc)]

(* for (i = 0; i < n; i++) { p1 = vertices[i]; p2 = vertices[(i+1)%n]; }   *)
DxfOutline(o, loc) == [i \in 1..Len(o) |-> DxfEntity(o[i], o[(i % Len(o)) + 1], loc)]

DxfLines(poly, loc) ==
    <<Line("header", <<"  0", "SECTION", "  2", "BLOCKS", "  0", "ENDSEC",
                       "  0", "SECTION", "  2", "ENTITIES">>)>>
    \o Flatten([k \in 1..Len(poly) |-> DxfOutline(poly[k], loc)])
    \o <<Line("trailer", <<"  0", "ENDSEC">>),
         Line("trailer", <<"  0", "SECTION", "  2", "OBJECTS", "  0", "DICTIONARY",
                           "  0", "ENDSEC">>),
         Line("trailer", <<"  0", "EOF">>)>>

OutlineConvLocs(poly, loc) ==
    IF \E k \in 1..Len(poly) : poly[k] # <<>> THEN {loc} ELSE {}

export_dxf(poly, loc0, env, cap) ==
    LET l1 == setlocale("C", env)
    IN  With(Stream(DxfLines(poly, l1), cap), LAMBDA s :
          Done(s, LocaleAtExit(s, l1, env),
               IF cap # NeverFails /\ cap < 2 THEN {} ELSE OutlineConvLocs(poly, l1),
               <<>>, FALSE, NoTables))

Floor(v) == v \div Unit

Ceil(v) == 0 - ((0 - v) \div Unit)

Min(S) == CHOOSE m \in S : \A n \in S : m <= n

Max(S) == CHOOSE m \in S : \A n \in S : m >= n

(* Polygon2d::getBoundingBox: the axis-aligned box of all vertices.        *)
getBoundingBox(poly) ==
    LET pts == Range(Flatten(poly))
    IN  [minx |-> Min({q[1] : q \in pts}), maxx |-> Max({q[1] : q \in pts}),
         miny |-> Min({q[2] : q \in pts}), maxy |-> Max({q[2] : q \in pts})]

(* operator<< of the negated coordinate -y: the negative of zero prints    *)
(* with its sign.                                                          *)
FmtNeg(y, loc) == IF y = 0 THEN "-0" ELSE Fmt(0 - y, loc)

RECURSIVE SvgLineTo(_, _, _)
SvgLineTo(o, idx, loc) ==
    IF idx >= Len(o) THEN <<>>
    ELSE <<" L ", Fmt(o[idx + 1][1], loc), ",", FmtNeg(o[idx + 1][2], loc)>>
         \o (IF idx % 6 = 5 THEN <<"\n">> ELSE <<>>)
         \o SvgLineTo(o, idx + 1, loc)

SvgOutline(o, loc) ==
    IF o = <<>> THEN <<>>
    ELSE <<Line("outline", <<"M ", Fmt(o[1][1], loc), ",", FmtNeg(o[1][2], loc)>>
                           \o SvgLineTo(o, 1, loc) \o <<" z\n">>)>>

SvgHeaderUpright(poly) ==
    LET bbox == getBoundingBox(poly)
        minx == Floor(bbox.minx)
        miny == Floor(bbox.miny)
        maxx == Ceil(bbox.maxx)
        maxy == Ceil(bbox.maxy)
    IN  Line("header", <<"<svg", "width", ToString(maxx - minx),
                         "height", ToString(maxy - miny),
                         "viewBox", ToString(minx - 1), ToString(miny - 1),
                         ToString(maxx - minx + 2), ToString(maxy - miny + 2)>>)

(* int minx = floor(bbox.min().x()); int miny = floor(-bbox.max().y());    *)
(* int maxx = ceil(bbox.max().x());  int maxy = ceil(-bbox.min().y());     *)
SvgHeader(poly) ==
    LET bbox == getBoundingBox(poly)
        minx == Floor(bbox.minx)
        miny == Floor(0 - bbox.maxy)
        maxx == Ceil(bbox.maxx)
        maxy == Ceil(0 - bbox.miny)
    IN  Line("header", <<"<svg", "width", ToString(maxx - minx),
                         "height", ToString(maxy - miny),
                         "viewBox", ToString(minx - 1), ToString(miny - 1),
                         ToString(maxx - minx + 2), ToString(maxy - miny + 2)>>)

SvgLines(poly, loc) ==
    <<SvgHeader(poly), Line("header", <<"<path d=\"">>)>>
    \o Flatten([k \in 1..Len(poly) |-> SvgOutline(poly[k], loc)])
    \o <<Line("trailer", <<"\" stroke=\"black\" fill=\"lightgray\" stroke-width=\"0.5\"/>">>),
         Line("trailer", <<"</svg>">>)>>

export_svg(poly, loc0, env, cap) ==
    LET l1 == setlocale("C", env)
    IN  With(Stream(SvgLines(poly, l1), cap), LAMBDA s :
          Done(s, LocaleAtExit(s, l1, env),
               IF cap # NeverFails /\ cap < 3 THEN {} ELSE OutlineConvLocs(poly, l1),
               <<>>, FALSE, NoTables))

-----------------------------------------------------------------------------
(* The dispatcher.                                                         *)

Formats == {"STL", "OFF", "AMF", "OBJ", "DXF", "SVG"}

(* A writer call made by the dispatcher, and what it left behind.          *)
Invoked(writer, r) ==
    [writers |-> <<writer>>, outcome |-> "returned", assertion |-> ""] @@ r

(* assert(false && msg): the process is aborted, nothing was called.       *)
AssertFalse(msg, loc0) ==
    [writers |-> <<>>, outcome |-> "aborted", assertion |-> msg,
     output |-> <<>>, thrown |-> FALSE, locale |-> loc0,
     convLocs |-> {}, diags |-> <<>>, extracted |-> FALSE,
     vertices |-> <<>>, vertmap |-> <<>>, faces |-> <<>>]

exportFile_Nef(N, format, loc0, env, cap) ==
    CASE format = "STL" -> Invoked("export_stl(Nef)", export_stl_Nef(N, loc0, env, cap))
      [] format = "OFF" -> Invoked("export_off(Nef)", export_off_Nef(N, loc0, env, cap))
      [] format = "AMF" -> Invoked("export_amf(Nef)", export_amf_Nef(N, loc0, env, cap))
      [] format = "OBJ" -> Invoked("export_obj(Nef)", export_obj_Nef(N, loc0, env, cap))
      [] format = "DXF" -> AssertFalse("Export Nef polyhedron as DXF not supported", loc0)
      [] OTHER          -> AssertFalse("Unknown file format", loc0)

exportFile_PolySet(ps, format, loc0, env, cap) ==
    CASE format = "STL" -> Invoked("export_stl(PolySet)", export_stl_PolySet(ps, loc0, env, cap))
      [] format = "OFF" -> Invoked("export_off(PolySet)", export_off_PolySet(ps, loc0, env, cap))
      [] format = "AMF" -> Invoked("export_amf(PolySet)", export_amf_PolySet(ps, loc0, env, cap))
      [] format = "OBJ" -> Invoked("export_obj(PolySet)", export_obj_PolySet(ps, loc0, env, cap))
      [] OTHER          -> AssertFalse("Unsupported file format", loc0)

exportFile_Polygon2d_lenient(poly, format, loc0, env, cap) ==
    CASE format = "SVG" -> Invoked("export_svg", export_svg(poly, loc0, env, cap))
      [] OTHER          -> Invoked("export_dxf", export_dxf(poly, loc0, env, cap))

exportFile_Polygon2d(poly, format, loc0, env, cap) ==
    CASE format = "SVG" -> Invoked("export_svg", export_svg(poly, loc0, env, cap))
      [] format = "DXF" -> Invoked("export_dxf", export_dxf(poly, loc0, env, cap))
      [] OTHER          -> AssertFalse("Unsupported file format", loc0)

(* g is the geometry with its concrete kind, as the dynamic_casts find it. *)
exportFile(g, format, loc0, env, cap) ==
    IF g.kind = "Solid" THEN exportFile_Nef(g, format, loc0, env, cap)
    ELSE IF g.kind = "Mesh" THEN exportFile_PolySet(g.polygons, format, loc0, env, cap)
    ELSE IF g.kind = "Outline" THEN exportFile_Polygon2d(g.outlines, format, loc0, env, cap)
    ELSE AssertFalse("Not implemented", loc0)

-----------------------------------------------------------------------------
(* The file front end.                                                     *)

CantOpen(name) == <<"Can't open file \"%s\" for export", name>>

WriteError(name) == <<"ERROR: \"%s\" write error. (Disk full?)", name>>

(* if (onerror) PRINTB("ERROR: \"%s\" write error. (Disk full?)", name2display) *)
ReportWriteError(onerror, name2open, name2display) ==
    IF onerror THEN <<WriteError(name2display)>> ELSE <<>>

CatchNothing(raised) == [onerror |-> FALSE, escaped |-> raised]

(* try { ... } catch (std::ios::failure x) { onerror = true; }             *)
CatchFailure(raised) == [onerror |-> raised, escaped |-> FALSE]

(* The observation of one call: what it was, what it did.                  *)
Observed(entry, g, format, loc0, r, opened, calls, closes, closeFailed, escaped, diags) ==
    [entry |-> entry, kind |-> g.kind, format |-> format, localeBefore |-> loc0,
     opened |-> opened, exportFileCalls |-> calls, closeAttempts |-> closes,
     closeFailed |-> closeFailed,
     escaped |-> escaped, diags |-> diags] @@ r

NothingDone(loc0) ==
    [writers |-> <<>>, outcome |-> "returned", assertion |-> "",
     output |-> <<>>, thrown |-> FALSE, locale |-> loc0,
     convLocs |-> {}, diags |-> <<>>, extracted |-> FALSE,
     vertices |-> <<>>, vertmap |-> <<>>, faces |-> <<>>]

exportFileByName(g, format, name2open, name2display, canOpen, cap, closeFails, loc0, env) ==
    IF ~canOpen
    THEN [obs |-> Observed("exportFileByName", g, format, loc0, NothingDone(loc0),
                           FALSE, 0, 0, FALSE, FALSE, <<CantOpen(name2display)>>),
          locale |-> loc0]
    ELSE With(exportFile(g, format, loc0, env, cap), LAMBDA r :
           IF r.outcome = "aborted"
           THEN [obs |-> Observed("exportFileByName", g, format, loc0, r,
                                  TRUE, 1, 0, FALSE, FALSE, r.diags),
                 locale |-> r.locale]
           ELSE LET c1 == CatchFailure(r.thrown)
                    c2 == CatchFailure(closeFails)
                IN  [obs |-> Observed("exportFileByName", g, format, loc0, r,
                                      TRUE, 1, IF c1.escaped THEN 0 ELSE 1,
                                      closeFails /\ ~c1.escaped,
                                      c1.escaped \/ c2.escaped,
                                      r.diags \o IF c1.escaped THEN <<>>
                                                 ELSE ReportWriteError(c1.onerror \/ c2.onerror,
                                                                       name2open, name2display)),
                     locale |-> r.locale])

-----------------------------------------------------------------------------
(* The state machine: one geometry handed in by the evaluation layer, the  *)
(* process-wide numeric locale, and the export calls made on the geometry. *)

(* A Geometry with its concrete class: a CGAL_Nef_polyhedron ("Solid"), a  *)
(* PolySet ("Mesh"), a Polygon2d ("Outline") or none of them ("Other").    *)
(* The fields a class does not have are left empty.                        *)
Geometry(kind, polygons, outlines) ==
    [kind |-> kind, simple |-> TRUE, convertThrows |-> FALSE, polysetErr |-> FALSE,
     facets |-> <<>>, polygons |-> polygons, outlines |-> outlines]

Geoms ==
    {Geometry("Mesh", m, <<>>) : m \in Meshes}
    \cup Solids
    \cup {Geometry("Outline", <<>>, o) : o \in OutlineSets}
    \cup {Geometry("Other", <<>>, <<>>)}

Caps == {NeverFails} \cup 0..MaxGoodWrites

FileNames == [open : {"export.tmp"}, display : {"export.stl"}]

NoCall == [entry |-> "none", outcome |-> "none"]

NoRef == [format |-> "none"]

Init ==
    /\ locale \in Locales
    /\ envLocale \in Locales
    /\ geom \in Geoms
    /\ last = NoCall
    /\ ref = NoRef

(* exportFile called on a stream of the caller that takes every write.     *)
ExportFile ==
    /\ last.outcome # "aborted"
    /\ \E format \in Formats :
         \E r \in {exportFile(geom, format, locale, envLocale, NeverFails)} :
             /\ last' = Observed("exportFile", geom, format, locale, r,
                                 TRUE, 1, 0, FALSE, r.thrown, r.diags)
             /\ locale' = r.locale
    /\ UNCHANGED <<envLocale, geom, ref>>

(* What the file system does to one exportFileByName call: whether the     *)
(* file opens, how many writes succeed, whether close() fails.             *)
FileFates ==
    {[canOpen |-> FALSE, cap |-> NeverFails, closeFails |-> FALSE]}
    \cup [canOpen : {TRUE}, cap : Caps, closeFails : BOOLEAN]

ExportFileByName ==
    /\ last.outcome # "aborted"
    /\ \E format \in Formats, names \in FileNames, fate \in FileFates :
         \E c \in {exportFileByName(geom, format, names.open, names.display,
                                   fate.canOpen, fate.cap, fate.closeFails,
                                   locale, envLocale)} :
             /\ last' = c.obs
             /\ locale' = c.locale
    /\ UNCHANGED <<envLocale, geom, ref>>

Next == ExportFile \/ ExportFileByName

Spec == Init /\ [][Next]_vars

-----------------------------------------------------------------------------
(* Sequences of export calls on changing geometry.  The evaluation layer   *)
(* hands in another geometry between calls; ref keeps the output of one    *)
(* earlier export of a mesh, to compare a later export of that mesh with.  *)

DetSolids == {n \in Solids : n.facets # <<>> /\ ~n.polysetErr}

DetGeoms ==
    {Geometry("Mesh", m, <<>>) : m \in SeqsUpTo(FacePool, MaxDetFaces)}
    \cup DetSolids
    \cup {Geometry("Outline", <<>>, o) : o \in OutlineSets}

InitDet ==
    /\ locale \in Locales
    /\ envLocale \in Locales
    /\ geom \in DetGeoms
    /\ last = NoCall
    /\ ref = NoRef

Load ==
    /\ last.outcome # "aborted"
    /\ geom' \in DetGeoms \ {geom}
    /\ last' = NoCall
    /\ UNCHANGED <<locale, envLocale, ref>>

Remember ==
    /\ ref = NoRef
    /\ last.entry = "exportFile"
    /\ last.kind = "Mesh"
    /\ last.outcome = "returned"
    /\ ref' = [format |-> last.format, polygons |-> geom.polygons, output |-> last.output]
    /\ UNCHANGED <<locale, envLocale, geom, last>>

NextDet == ExportFile \/ Load \/ Remember

SpecDet == InitDet /\ [][NextDet]_vars

-----------------------------------------------------------------------------
(* Properties.  last is the observation of the most recent call, locale    *)
(* the numeric locale it left in force.                                    *)

Called == last.entry # "none"

(* The call reached a writer.                                              *)
Wrote == Called /\ last.writers # <<>>

(* The call returned from exportFile with every write done.                *)
Completed == Wrote /\ last.outcome = "returned" /\ ~last.thrown

LocaleSwitchingWriters ==
    {"export_stl(PolySet)", "export_stl(Nef)", "export_off(PolySet)", "export_off(Nef)",
     "export_obj(PolySet)", "export_obj(Nef)", "export_amf(Nef)", "export_dxf", "export_svg"}

(* C1: after a call of a writer that switches the numeric locale, on any   *)
(* exit path, the process-wide numeric locale is the one that was in force *)
(* immediately before the call.                                            *)
C1_LocaleRestored ==
    (Wrote /\ last.writers[1] \in LocaleSwitchingWriters) => locale = last.localeBefore

(* C2: whatever writer exportFile routes to, every conversion of a         *)
(* coordinate to text happens while the numeric locale is "C".             *)
C2_ConversionsUnderC == Wrote => last.convLocs \subseteq {"C"}

(* C3: two exports of the same mesh to the same format give the same       *)
(* output, whatever export calls ran before or between them.               *)
C3_SameMeshSameBytes ==
    (/\ ref # NoRef
     /\ Called
     /\ last.kind = "Mesh"
     /\ last.outcome = "returned"
     /\ last.format = ref.format
     /\ geom.polygons = ref.polygons)
    => last.output = ref.output

-----------------------------------------------------------------------------
(* Reading the output back.                                                *)

KindLines(out, kind) == SelectSeq(out, LAMBDA l : l.kind = kind)

LastN(t, n) == SubSeq(t, Len(t) - n + 1, Len(t))

IndexFormats == {"OFF", "AMF", "OBJ"}

TriangleFormats == {"STL", "AMF"}

MeshExport == Wrote /\ last.kind = "Mesh"

(* The vertex table of the output: the three coordinate fields per vertex. *)
EmittedVertices == [i \in 1..Len(KindLines(last.output, "vertex")) |->
                       LastN(KindLines(last.output, "vertex")[i].text, 3)]

(* The number a decimal index field stands for.                            *)
IndexValue(str) == CHOOSE n \in 0..(Len(EmittedVertices) + 1) : ToString(n) = str

(* The faces of the output, each as the keys of its corners: looked up in  *)
(* the vertex table by the indices of a face record (1-based in OBJ), or,  *)
(* for STL, the three vertex lines of each facet.                          *)
EmittedFaces ==
    IF last.format = "STL"
    THEN [k \in 1..(Len(EmittedVertices) \div 3) |->
            <<EmittedVertices[3 * k - 2], EmittedVertices[3 * k - 1], EmittedVertices[3 * k]>>]
    ELSE [k \in 1..Len(KindLines(last.output, "face")) |->
            LET refs == Tail(KindLines(last.output, "face")[k].text)
            IN  [j \in 1..Len(refs) |->
                    EmittedVertices[IndexValue(refs[j]) + (IF last.format = "OBJ" THEN 0 ELSE 1)]]]

(* The locale the call converted coordinates under.                        *)
ConvLocale == IF last.format = "AMF" /\ last.kind = "Mesh" THEN last.localeBefore ELSE "C"

(* The faces the vertex index and the filter see: for the triangle-only    *)
(* formats, the triangles of the tessellated mesh.                         *)
Presented(ps) == IF last.format \in TriangleFormats THEN tessellate_faces(ps) ELSE ps

Keyed(ps) == [i \in 1..Len(ps) |-> [j \in 1..Len(ps[i]) |-> Key(ps[i][j], ConvLocale)]]

DistinctCorners(face) == \A i, j \in 1..Len(face) : i # j => face[i] # face[j]

DistinctPoints(poly) ==
    \A i, j \in 1..Len(poly) : i # j => Key(poly[i], ConvLocale) # Key(poly[j], ConvLocale)

KeysOf(faces) == UNION {Range(faces[i]) : i \in 1..Len(faces)}

-----------------------------------------------------------------------------
(* C4 as stated: the vertex count an index-based writer emits for a mesh   *)
(* is the number of distinct keys in the surviving faces.                  *)
C4_CountsSurvivingKeys ==
    (MeshExport /\ Completed /\ last.format \in IndexFormats)
    => Len(EmittedVertices)
         = Cardinality(KeysOf(SelectSeq(Keyed(Presented(geom.polygons)), DistinctCorners)))

(* C4, amended: when all writes succeed, the vertex count an index-based   *)
(* writer emits for a mesh (and the count in the OFF header) is the number *)
(* of distinct keys over all faces handed to the vertex index, dropped     *)
(* faces included.                                                         *)
C4_CountsAllKeys ==
    (MeshExport /\ Completed /\ last.format \in IndexFormats)
    => /\ Len(EmittedVertices) = Cardinality(KeysOf(Keyed(Presented(geom.polygons))))
       /\ last.format = "OFF"
            => last.output[1].text[2] = ToString(Cardinality(KeysOf(Keyed(geom.polygons))))

C4_Witness ==
    /\ MeshExport /\ Completed /\ last.format \in IndexFormats
    /\ Len(EmittedVertices) = 3
    /\ Cardinality(KeysOf(EmittedFaces)) < Len(EmittedVertices)
    /\ \E i \in 1..Len(geom.polygons) : ~DistinctPoints(geom.polygons[i])

(* C5: when the boundary extractor aborts for a solid (not simple, or the  *)
(* kernel conversion fails), the export to OFF, AMF or OBJ writes nothing. *)
C5_NoOutputOnAbort ==
    (/\ Called /\ last.opened /\ last.outcome = "returned"
     /\ last.kind = "Solid" /\ last.format \in IndexFormats
     /\ (~geom.simple \/ geom.convertThrows))
    => last.output = <<>>

-----------------------------------------------------------------------------
(* The stream of keys PolySet_to_ASCII_Faces meets, in order.              *)
KeyStream == Flatten(Keyed(Presented(geom.polygons)))

FirstPos(str, k) == CHOOSE i \in 1..Len(str) : str[i] = k /\ \A j \in 1..(i - 1) : str[j] # k

(* C7: PolySet_to_ASCII_Faces gives the keys ids 0, 1, 2, ... in the order *)
(* of their first occurrence; a later occurrence resolves through          *)
(* find_index to the same id; the vertex table holds no key twice, so key  *)
(* to id is a bijection onto 0 .. size - 1.                                *)
C7_SequentialIds ==
    (MeshExport /\ last.format \in IndexFormats)
    => /\ Range(last.vertices) = Range(KeyStream)
       /\ DOMAIN last.vertmap = Range(KeyStream)
       /\ \A i, j \in 1..Len(last.vertices) :
            i < j => /\ last.vertices[i] # last.vertices[j]
                     /\ FirstPos(KeyStream, last.vertices[i])
                          < FirstPos(KeyStream, last.vertices[j])
       /\ \A i \in 1..Len(last.vertices) :
            /\ last.vertmap[last.vertices[i]] = i - 1
            /\ find_index(last.vertices, last.vertices[i]) = i - 1

C7_Witness ==
    /\ MeshExport /\ last.format = "OBJ"
    /\ Len(last.vertices) = 4
    /\ Len(KeyStream) > 4
    /\ KeyStream[4] = KeyStream[1]

(* C8 as stated: for every mesh writer, a face of the mesh with two        *)
(* corners of the same key produces no face record; the output holds the   *)
(* records of the other faces only.                                        *)
C8_DegenerateFaceLeavesNoRecord ==
    (MeshExport /\ Completed)
    => EmittedFaces
         = SelectSeq(Keyed(Presented(SelectSeq(geom.polygons, DistinctPoints))),
                     DistinctCorners)

(* C8, amended: OFF and OBJ drop every face of the mesh with two corners   *)
(* of the same key; STL and AMF drop every triangle of the tessellated     *)
(* mesh with two corners of the same key.  The faces left are all written, *)
(* in order, and no diagnostic is emitted.                                 *)
C8_DegenerateFacesDropped ==
    (MeshExport /\ Completed)
    => /\ EmittedFaces = SelectSeq(Keyed(Presented(geom.polygons)), DistinctCorners)
       /\ ~last.closeFailed => last.diags = <<>>

C8_Witness ==
    /\ MeshExport /\ Completed
    /\ geom.polygons = <<<<PA, PA, PB>>, <<PA, PB, PC>>>>
    /\ Len(EmittedFaces) = 1

-----------------------------------------------------------------------------
ValidWriter ==
    [Solid   |-> [STL |-> "export_stl(Nef)", OFF |-> "export_off(Nef)",
                  AMF |-> "export_amf(Nef)", OBJ |-> "export_obj(Nef)"],
     Mesh    |-> [STL |-> "export_stl(PolySet)", OFF |-> "export_off(PolySet)",
                  AMF |-> "export_amf(PolySet)", OBJ |-> "export_obj(PolySet)"],
     Outline |-> [SVG |-> "export_svg", DXF |-> "export_dxf"]]

(* C9: exportFile invokes exactly the one writer valid for the (geometry   *)
(* kind, format) pair, and for every other pair fails an assertion,        *)
(* invokes no writer and writes nothing.                                   *)
C9_Dispatch ==
    (Called /\ last.opened /\ last.kind \in DOMAIN ValidWriter)
    => IF last.format \in DOMAIN ValidWriter[last.kind]
       THEN last.outcome = "returned" /\ last.writers = <<ValidWriter[last.kind][last.format]>>
       ELSE last.outcome = "aborted" /\ last.writers = <<>> /\ last.output = <<>>

C9_Witness ==
    /\ Called /\ last.kind = "Outline" /\ last.format = "STL"
    /\ last.outcome = "aborted"

Occurrences(seq, x) == Len(SelectSeq(seq, LAMBDA d : d = x))

(* C10: no I/O failure leaves exportFileByName.  If the file cannot be     *)
(* opened, one diagnostic names the display name and exportFile is not     *)
(* called; if a write or the close fails, the close is still attempted,    *)
(* exactly one write-error diagnostic names the display name, exportFile   *)
(* is not called again, and the call returns.                              *)
C10_FailuresReported ==
    (Called /\ last.entry = "exportFileByName")
    => \A names \in FileNames :
         /\ ~last.escaped
         /\ ~last.opened
              => /\ last.diags = <<CantOpen(names.display)>>
                 /\ last.exportFileCalls = 0
                 /\ last.writers = <<>>
         /\ (last.opened /\ last.outcome = "returned")
              => /\ last.exportFileCalls = 1
                 /\ last.closeAttempts = 1
                 /\ Occurrences(last.diags, WriteError(names.display))
                      = (IF last.thrown \/ last.closeFailed THEN 1 ELSE 0)
                 /\ Occurrences(last.diags, WriteError(names.open)) = 0

C10_Witness ==
    /\ Called /\ last.entry = "exportFileByName"
    /\ last.thrown /\ last.closeFailed
    /\ last.output # <<>>

-----------------------------------------------------------------------------
(* The vertex references of the face records of the output, as numbers.    *)
FaceIndices ==
    [k \in 1..Len(KindLines(last.output, "face")) |->
        LET refs == Tail(KindLines(last.output, "face")[k].text)
        IN  [j \in 1..Len(refs) |-> IndexValue(refs[j])]]

(* The id of a key: the number of distinct keys first met before it.       *)
IdOf(str, k) ==
    Cardinality({FirstPos(str, q) : q \in Range(str)} \cap 1..(FirstPos(str, k) - 1))

MeshWritten(format) == MeshExport /\ Completed /\ last.format = format

(* C11: an export of a mesh to OFF and the next export of the same mesh to *)
(* OBJ write the same vertex table and the same faces in the same order;   *)
(* every index of an OFF face line is the 0-based id of the corner's key,  *)
(* and the index at the same place of the OBJ 'f' line is that id plus 1.  *)
C11_OffObjSameTopology ==
    [][(MeshWritten("OFF") /\ MeshWritten("OBJ")')
       => LET kept == SelectSeq(Keyed(geom.polygons), DistinctCorners)
          IN  /\ EmittedVertices' = EmittedVertices
              /\ Len(FaceIndices) = Len(kept)
              /\ Len(FaceIndices') = Len(kept)
              /\ \A k \in 1..Len(kept) :
                   /\ Len(FaceIndices[k]) = Len(kept[k])
                   /\ Len(FaceIndices'[k]) = Len(kept[k])
                   /\ \A j \in 1..Len(kept[k]) :
                        /\ FaceIndices[k][j] = IdOf(KeyStream, kept[k][j])
                        /\ FaceIndices'[k][j] = FaceIndices[k][j] + 1
                        /\ EmittedVertices[FaceIndices[k][j] + 1] = kept[k][j]]_vars

C11_Witness ==
    /\ MeshWritten("OBJ")
    /\ geom.polygons = <<<<PA, PB, PC>>, <<PA, PB, PE, PC>>>>
    /\ Len(EmittedVertices) = 4
    /\ FaceIndices = <<<<1, 2, 3>>, <<1, 2, 4, 3>>>>

-----------------------------------------------------------------------------
OutlineWritten(format) ==
    Wrote /\ Completed /\ last.kind = "Outline" /\ last.format = format

Entities == KindLines(last.output, "entity")

(* The value written after a group code of an entity.                      *)
DxfField(e, code) == e.text[(CHOOSE p \in 1..Len(e.text) : e.text[p] = code) + 1]

(* The number of vertices of the outlines before outline k.                *)
VerticesBefore(poly, k) == Len(Flatten(SubSeq(poly, 1, k - 1)))

(* C12: export_dxf writes, for every outline with n vertices, exactly n    *)
(* LINE entities, entity i from vertex i to vertex (i+1) mod n, the last   *)
(* one back to vertex 0; an outline without vertices gives no entity; the  *)
(* entities of the outlines follow each other in outline order.            *)
C12_DxfClosure ==
    OutlineWritten("DXF")
    => /\ Len(Entities) = Len(Flatten(geom.outlines))
       /\ \A e \in Range(Entities) : e.text[2] = "LINE"
       /\ \A k \in 1..Len(geom.outlines) :
            LET o == geom.outlines[k]
                n == Len(o)
            IN  \A i \in 0..(n - 1) :
                  LET e  == Entities[VerticesBefore(geom.outlines, k) + i + 1]
                      p1 == o[i + 1]
                      p2 == o[((i + 1) % n) + 1]
                  IN  /\ DxfField(e, " 10") = Fmt(p1[1], "C")
                      /\ DxfField(e, " 20") = Fmt(p1[2], "C")
                      /\ DxfField(e, " 11") = Fmt(p2[1], "C")
                      /\ DxfField(e, " 21") = Fmt(p2[2], "C")

C12_Witness ==
    /\ OutlineWritten("DXF")
    /\ Len(geom.outlines) = 2
    /\ geom.outlines[1] = <<>>
    /\ Len(geom.outlines[2]) = 3
    /\ Len(Entities) = 3
    /\ DxfField(Entities[3], " 10") = "0.5"
    /\ DxfField(Entities[3], " 20") = "-0.5"
    /\ DxfField(Entities[3], " 11") = "0"
    /\ DxfField(Entities[3], " 21") = "0"

-----------------------------------------------------------------------------
(* The four numbers of the viewBox attribute, in units of 10^-Precision.   *)
ViewBoxRange == (0 - 9)..9

ViewBox ==
    LET h == last.output[1].text
        p == CHOOSE q \in 1..Len(h) : h[q] = "viewBox"
    IN  [i \in 1..4 |-> Unit * (CHOOSE n \in ViewBoxRange : ToString(n) = h[p + i])]

OutlinePoints == Range(Flatten(geom.outlines))

BoxMinX == CHOOSE x \in {q[1] : q \in OutlinePoints} : \A q \in OutlinePoints : x <= q[1]

BoxMaxX == CHOOSE x \in {q[1] : q \in OutlinePoints} : \A q \in OutlinePoints : x >= q[1]

BoxMinY == CHOOSE y \in {q[2] : q \in OutlinePoints} : \A q \in OutlinePoints : y <= q[2]

BoxMaxY == CHOOSE y \in {q[2] : q \in OutlinePoints} : \A q \in OutlinePoints : y >= q[2]

(* The greatest whole number not above v, the least not below v.           *)
WholeBelow(v) == Unit * (CHOOSE n \in ViewBoxRange : n * Unit <= v /\ v < (n + 1) * Unit)

WholeAbove(v) == Unit * (CHOOSE n \in ViewBoxRange : (n - 1) * Unit < v /\ v <= n * Unit)

-----------------------------------------------------------------------------
(* The number of face records of the output: facets for STL.               *)
FaceRecords ==
    IF last.format = "STL" THEN Len(KindLines(last.output, "loop")) \div 2
    ELSE Len(KindLines(last.output, "face"))

(* The number of vertices face record k lists.                             *)
FaceSize(k) ==
    IF last.format = "STL" THEN Len(KindLines(last.output, "vertex")) \div FaceRecords
    ELSE Len(FaceIndices[k])

(* C14: a mesh exported to STL or AMF is tessellated as a whole before any *)
(* duplicate-corner filtering or vertex indexing: the face records are the *)
(* triangles of the tessellated mesh that pass the filter, each with       *)
(* exactly 3 vertices.  A mesh exported to OFF or OBJ is not tessellated:  *)
(* every face record lists as many indices as its input face has points.   *)
C14_TessellationFirst ==
    (MeshExport /\ Completed)
    => /\ last.format \in TriangleFormats
            => /\ FaceRecords
                    = Len(SelectSeq(Keyed(tessellate_faces(geom.polygons)), DistinctCorners))
               /\ \A k \in 1..FaceRecords : FaceSize(k) = 3
               /\ last.format = "STL"
                    => Len(KindLines(last.output, "vertex")) = 3 * FaceRecords
               /\ last.format = "AMF"
                    => last.vertices
                         = RegisterAll(EmptyIndex,
                                       Flatten(Keyed(tessellate_faces(geom.polygons)))).vertices
       /\ last.format \in {"OFF", "OBJ"}
            => LET kept == SelectSeq(geom.polygons, DistinctPoints)
               IN  /\ FaceRecords = Len(kept)
                   /\ \A k \in 1..Len(kept) :
                        /\ FaceSize(k) = Len(kept[k])
                        /\ last.format = "OFF"
                             => KindLines(last.output, "face")[k].text[1]
                                  = ToString(Len(kept[k]))

C14_Witness ==
    /\ MeshExport /\ Completed /\ last.format = "AMF"
    /\ geom.polygons = <<<<PA, PA, PB, PC>>, <<PA, PB, PE, PC>>>>
    /\ FaceRecords = 3
    /\ \A k \in 1..3 : FaceSize(k) = 3

-----------------------------------------------------------------------------
IndexedWritten ==
    /\ Wrote /\ Completed
    /\ last.kind \in {"Mesh", "Solid"}
    /\ last.format \in IndexFormats

(* C15: a file an index-based writer (OFF, AMF, OBJ) has written for a     *)
(* mesh or a solid is consistent in itself: the counts of the OFF header   *)
(* are the numbers of vertex and face lines written, every index of every  *)
(* face record points into the written vertex table (from 0 for OFF and    *)
(* AMF, from 1 for OBJ), and find_index finds every corner of every face.  *)
C15_IndexedOutputConsistent ==
    IndexedWritten
    => /\ (last.format = "OFF" /\ last.output # <<>>)
            => /\ last.output[1].text[2] = ToString(Len(KindLines(last.output, "vertex")))
               /\ last.output[1].text[3] = ToString(Len(KindLines(last.output, "face")))
       /\ Len(KindLines(last.output, "face")) = Len(last.faces)
       /\ \A k \in 1..Len(KindLines(last.output, "face")) :
            \A j \in 1..Len(Tail(KindLines(last.output, "face")[k].text)) :
              \E n \in (IF last.format = "OBJ" THEN 1..Len(EmittedVertices)
                                                ELSE 0..(Len(EmittedVertices) - 1)) :
                ToString(n) = Tail(KindLines(last.output, "face")[k].text)[j]
       /\ \A k \in 1..Len(last.faces) :
            \A j \in 1..Len(last.faces[k]) :
              find_index(last.vertices, last.faces[k][j]) < Len(last.vertices)

C15_Witness ==
    /\ IndexedWritten
    /\ last.kind = "Solid" /\ last.format = "OBJ"
    /\ Len(EmittedVertices) = 4
    /\ FaceIndices = <<<<1, 2, 3>>, <<1, 3, 4>>>>

====
